---- MODULE Spec2Model ----
(***************************************************************************)
(* Model of the Nano Banana scraper (scraper.py, setup_airtable.py).       *)
(*                                                                         *)
(* Text is a sequence of characters.  An ASCII character is the string of  *)
(* that character; a character outside ASCII is named by its code point    *)
(* ("u6848" is U+6848).  An optional value is <<>> (Python None) or <<v>>. *)
(***************************************************************************)
EXTENDS Integers, Sequences, FiniteSets, TLC

None == <<>>
Some(v) == <<v>>

\* Python truthiness of an optional string: neither None nor "".
Truthy(o) == o # None /\ o[1] # <<>>

\* Python `o or ""` for an optional string.
OrEmpty(o) == IF Truthy(o) THEN o[1] ELSE <<>>

------------------------------------------------------------------------------
(* Characters and the character classes of the regular expressions.        *)

NL == "\n"
FWColon == "uFF1A"

\* \s
WS == {" ", "\t", NL, "\r"}

\* \d
Digits == {"0", "1", "2", "3", "4", "5", "6", "7", "8", "9"}

DigitVal(c) ==
  CASE c = "0" -> 0 [] c = "1" -> 1 [] c = "2" -> 2 [] c = "3" -> 3
    [] c = "4" -> 4 [] c = "5" -> 5 [] c = "6" -> 6 [] c = "7" -> 7
    [] c = "8" -> 8 [] c = "9" -> 9

DigitChar(d) ==
  CASE d = 0 -> "0" [] d = 1 -> "1" [] d = 2 -> "2" [] d = 3 -> "3"
    [] d = 4 -> "4" [] d = 5 -> "5" [] d = 6 -> "6" [] d = 7 -> "7"
    [] d = 8 -> "8" [] d = 9 -> "9"

\* int(s) for a run of digits s.
RECURSIVE IntOfDigits(_)
IntOfDigits(s) ==
  IF s = <<>> THEN 0
  ELSE 10 * IntOfDigits(SubSeq(s, 1, Len(s) - 1)) + DigitVal(s[Len(s)])

\* str(n) for n >= 0.
RECURSIVE StrOfInt(_)
StrOfInt(n) ==
  IF n < 10 THEN <<DigitChar(n)>>
  ELSE StrOfInt(n \div 10) \o <<DigitChar(n % 10)>>

\* str.lower() of one character.
LowerChar(c) ==
  CASE c = "A" -> "a" [] c = "B" -> "b" [] c = "C" -> "c" [] c = "D" -> "d"
    [] c = "E" -> "e" [] c = "F" -> "f" [] c = "G" -> "g" [] c = "H" -> "h"
    [] c = "I" -> "i" [] c = "J" -> "j" [] c = "K" -> "k" [] c = "L" -> "l"
    [] c = "M" -> "m" [] c = "N" -> "n" [] c = "O" -> "o" [] c = "P" -> "p"
    [] c = "Q" -> "q" [] c = "R" -> "r" [] c = "S" -> "s" [] c = "T" -> "t"
    [] c = "U" -> "u" [] c = "V" -> "v" [] c = "W" -> "w" [] c = "X" -> "x"
    [] c = "Y" -> "y" [] c = "Z" -> "z" [] OTHER -> c

\* str.lower()
Lower(s) == [i \in 1..Len(s) |-> LowerChar(s[i])]

\* s[i:] holds pat at (1-based) position i.
StartsWithAt(s, i, pat) ==
  /\ i >= 1
  /\ i + Len(pat) - 1 <= Len(s)
  /\ \A k \in 1..Len(pat) : s[i + k - 1] = pat[k]

\* `needle in hay`
Contains(hay, needle) ==
  \E i \in 1..(Len(hay) - Len(needle) + 1) : StartsWithAt(hay, i, needle)

\* The position after the longest run of characters of class C that starts
\* at position i (a greedy C*).
RunEnd(s, i, C) ==
  CHOOSE j \in i..(Len(s) + 1) :
    /\ \A k \in i..(j - 1) : s[k] \in C
    /\ j = Len(s) + 1 \/ s[j] \notin C

\* The same for the complement of the class X (a greedy [^X]*).
RunEndNot(s, i, X) ==
  CHOOSE j \in i..(Len(s) + 1) :
    /\ \A k \in i..(j - 1) : s[k] \notin X
    /\ j = Len(s) + 1 \/ s[j] \in X

\* str.strip()
Strip(s) ==
  LET a == RunEnd(s, 1, WS)
  IN IF a > Len(s) THEN <<>>
     ELSE LET b == CHOOSE j \in a..Len(s) :
                     /\ s[j] \notin WS
                     /\ \A k \in (j + 1)..Len(s) : s[k] \in WS
          IN SubSeq(s, a, b)

\* s.split('\n')[0]
FirstLine(s) == SubSeq(s, 1, RunEndNot(s, 1, {NL}) - 1)

Min(S) == CHOOSE x \in S : \A y \in S : x <= y
Max(S) == CHOOSE x \in S : \A y \in S : x >= y

------------------------------------------------------------------------------
(* The case header:                                                        *)
(*   #{2,3}\s*(?:label)\s*(\d+)[:]\s*(.+?)(?:\s*\(by\s*[@\[]?([^\)\]]+)    *)
(*   [\)\]]?)?$                                                            *)

\* (?:案例|Case|Example|No\.?)
LABELS ==
  { <<"u6848", "u4F8B">>,
    <<"C", "a", "s", "e">>,
    <<"E", "x", "a", "m", "p", "l", "e">>,
    <<"N", "o", ".">>,
    <<"N", "o">> }

HeadMarks == {2, 3}

\* #{2,3}\s*(?:label)\s* matched at position p with h marks and label l,
\* a digit following.
HeadAt(s, p, h, l) ==
  /\ \A k \in 0..(h - 1) : p + k <= Len(s) /\ s[p + k] = "#"
  /\ LET a == RunEnd(s, p + h, WS)
     IN /\ StartsWithAt(s, a, l)
        /\ LET b == RunEnd(s, a + Len(l), WS)
           IN b <= Len(s) /\ s[b] \in Digits

\* The position of the first digit of the case number.
NumberAt(s, p, h, l) == RunEnd(s, RunEnd(s, p + h, WS) + Len(l), WS)

\* The split pattern (?=#{2,3}\s*(?:label)\s*\d+) holds at position p.
HeaderStartsAt(s, p) == \E h \in HeadMarks, l \in LABELS : HeadAt(s, p, h, l)

Closers == {")", "]"}
AuthorMarks == {"@", "["}
Separators == {":", FWColon}

\* The position after "(by" when t is \s*\(by... , else 0.
ByEnd(t) ==
  LET a == RunEnd(t, 1, WS)
  IN IF StartsWithAt(t, a, <<"(", "b", "y">>) THEN a + 3 ELSE 0

\* t matches \s*\(by\s*[@\[]?([^\)\]]+)[\)\]]? up to the end of the line.
ByMatches(t) ==
  /\ ByEnd(t) # 0
  /\ LET e == RunEndNot(t, ByEnd(t), Closers)
     IN e > ByEnd(t) /\ e >= Len(t)

\* Group 3 of that match: \s* and [@\[]? take what they can and give it
\* back only when the group would be left empty.
ByGroup(t) ==
  LET js == ByEnd(t)
      j  == RunEnd(t, js, WS)
      e  == RunEndNot(t, js, Closers)
      g  == IF j < e /\ t[j] \in AuthorMarks /\ j + 1 < e THEN j + 1
            ELSE IF j < e THEN j
            ELSE j - 1
  IN SubSeq(t, g, e - 1)

\* re.match of the header pattern on one line (a line holds no newline):
\* None, or the groups (number, title, by).
HeaderMatch(line) ==
  IF ~ \E h \in HeadMarks, l \in LABELS : HeadAt(line, 1, h, l) THEN None
  ELSE
    LET hl == CHOOSE x \in HeadMarks \X LABELS : HeadAt(line, 1, x[1], x[2])
        b  == NumberAt(line, 1, hl[1], hl[2])
        d  == RunEnd(line, b, Digits)
    IN IF d > Len(line) \/ line[d] \notin Separators \/ d = Len(line)
       THEN None
       ELSE
         LET w  == RunEnd(line, d + 1, WS)
             \* \s* gives one character back when nothing is left for (.+?)
             ts == IF w <= Len(line) THEN w ELSE w - 1
             \* (.+?) is lazy: the shortest title after which the rest is
             \* the "(by ...)" group or nothing
             k  == Min({n \in 1..(Len(line) - ts + 1) :
                          \/ ts + n > Len(line)
                          \/ ByMatches(SubSeq(line, ts + n, Len(line)))})
             tail == SubSeq(line, ts + k, Len(line))
         IN Some([number |-> SubSeq(line, b, d - 1),
                  title  |-> SubSeq(line, ts, ts + k - 1),
                  by     |-> IF tail = <<>> THEN None ELSE Some(ByGroup(tail))])

\* re.sub(r'^[@\[]|[\]\)]$', '', author)
CleanAuthor(a) ==
  LET x == IF a # <<>> /\ a[1] \in AuthorMarks THEN SubSeq(a, 2, Len(a)) ELSE a
  IN IF x # <<>> /\ x[Len(x)] \in Closers THEN SubSeq(x, 1, Len(x) - 1) ELSE x

\* \[@?([^\]]+)\]\(([^\)]+)\) matched at position p; @? gives the "@" back
\* when the label would be left empty.
LinkAt(s, p, at) ==
  /\ p <= Len(s) /\ s[p] = "["
  /\ at = 1 => (p + 1 <= Len(s) /\ s[p + 1] = "@")
  /\ LET g == p + 1 + at
         a == RunEndNot(s, g, {"]"})
     IN /\ a > g
        /\ a + 1 <= Len(s) /\ s[a + 1] = "("
        /\ LET u == RunEndNot(s, a + 2, {")"})
           IN u > a + 2 /\ u <= Len(s)

\* re.search of the markdown link: None, or the groups (label, url).
LinkSearch(s) ==
  LET hits == {p \in 1..Len(s) : \E at \in {0, 1} : LinkAt(s, p, at)}
  IN IF hits = {} THEN None
     ELSE
       LET p  == Min(hits)
           at == IF LinkAt(s, p, 1) THEN 1 ELSE 0
           g  == p + 1 + at
           a  == RunEndNot(s, g, {"]"})
           u  == RunEndNot(s, a + 2, {")"})
       IN Some([label |-> SubSeq(s, g, a - 1), url |-> SubSeq(s, a + 2, u - 1)])

------------------------------------------------------------------------------
(* The tables of the program.                                              *)

\* tag_keywords, in declaration order.
tag_keywords ==
  <<
    [label |-> <<"3", "D">>, keywords |-> <<<<"3", "d">>, <<"3", "D">>,
       <<"u4E09", "u7EF4">>, <<"u7ACB", "u4F53">>>>],
    [label |-> <<"Q", "u7248">>, keywords |-> <<<<"q", "u7248">>, <<"Q",
       "u7248">>, <<"c", "h", "i", "b", "i">>, <<"c", "u", "t", "e">>>>],
    [label |-> <<"u73BB", "u7483">>, keywords |-> <<<<"g", "l", "a", "s",
       "s">>, <<"u73BB", "u7483">>, <<"t", "r", "a", "n", "s", "p", "a", "r",
       "e", "n", "t">>>>],
    [label |-> <<"u50CF", "u7D20">>, keywords |-> <<<<"p", "i", "x", "e",
       "l">>, <<"8", "b", "i", "t">>, <<"8", "-", "b", "i", "t">>, <<"u50CF",
       "u7D20">>>>],
    [label |-> <<"u4E50", "u9AD8">>, keywords |-> <<<<"l", "e", "g", "o">>,
       <<"u4E50", "u9AD8">>>>],
    [label |-> <<"u52A8", "u6F2B">>, keywords |-> <<<<"a", "n", "i", "m",
       "e">>, <<"u52A8", "u6F2B">>, <<"u6F2B", "u753B">>>>],
    [label |-> <<"u624B", "u529E">>, keywords |-> <<<<"f", "i", "g", "u", "r",
       "e">>, <<"u624B", "u529E">>, <<"f", "i", "g", "u", "r", "i", "n",
       "e">>>>],
    [label |-> <<"u6D77", "u62A5">>, keywords |-> <<<<"p", "o", "s", "t", "e",
       "r">>, <<"u6D77", "u62A5">>>>],
    [label |-> <<"L", "o", "g", "o">>, keywords |-> <<<<"l", "o", "g", "o">>,
       <<"u6807", "u5FD7">>>>],
    [label |-> <<"E", "m", "o", "j", "i">>, keywords |-> <<<<"e", "m", "o",
       "j", "i">>, <<"u8868", "u60C5">>>>],
    [label |-> <<"u590D", "u53E4">>, keywords |-> <<<<"r", "e", "t", "r",
       "o">>, <<"v", "i", "n", "t", "a", "g", "e">>, <<"u590D", "u53E4">>,
       <<"u6000", "u65E7">>>>],
    [label |-> <<"u6781", "u7B80">>, keywords |-> <<<<"m", "i", "n", "i", "m",
       "a", "l">>, <<"u6781", "u7B80">>, <<"u7B80", "u7EA6">>>>],
    [label |-> <<"u8D85", "u73B0", "u5B9E">>, keywords |-> <<<<"s", "u", "r",
       "r", "e", "a", "l">>, <<"u8D85", "u73B0", "u5B9E">>>>],
    [label |-> <<"u84B8", "u6C7D", "u670B", "u514B">>, keywords |-> <<<<"s",
       "t", "e", "a", "m", "p", "u", "n", "k">>, <<"u84B8", "u6C7D", "u670B",
       "u514B">>>>],
    [label |-> <<"u8D5B", "u535A", "u670B", "u514B">>, keywords |-> <<<<"c",
       "y", "b", "e", "r", "p", "u", "n", "k">>, <<"u8D5B", "u535A", "u670B",
       "u514B">>>>],
    [label |-> <<"u5199", "u5B9E">>, keywords |-> <<<<"r", "e", "a", "l", "i",
       "s", "t", "i", "c">>, <<"p", "h", "o", "t", "o", "r", "e", "a", "l",
       "i", "s", "t", "i", "c">>, <<"u5199", "u5B9E">>, <<"u8D85", "u5199",
       "u5B9E">>>>],
    [label |-> <<"u6C34", "u6676", "u7403">>, keywords |-> <<<<"c", "r", "y",
       "s", "t", "a", "l", " ", "b", "a", "l", "l">>, <<"u6C34", "u6676",
       "u7403">>>>],
    [label |-> <<"u9488", "u7EC7">>, keywords |-> <<<<"k", "n", "i", "t">>,
       <<"u9488", "u7EC7">>, <<"u94A9", "u7EC7">>>>],
    [label |-> <<"u73D0", "u7405">>, keywords |-> <<<<"e", "n", "a", "m", "e",
       "l">>, <<"u73D0", "u7405">>>>],
    [label |-> <<"u5409", "u535C", "u529B">>, keywords |-> <<<<"g", "h", "i",
       "b", "l", "i">>, <<"u5409", "u535C", "u529B">>>>],
    [label |-> <<"u76AE", "u514B", "u65AF">>, keywords |-> <<<<"p", "i", "x",
       "a", "r">>, <<"u76AE", "u514B", "u65AF">>>>] >>

\* categories, in declaration order.
categories ==
  <<
    \* Portrait & Character
    [label |-> <<"P", "o", "r", "t", "r", "a", "i", "t", " ", "&", " ", "C",
       "h", "a", "r", "a", "c", "t", "e", "r">>, keywords |-> <<<<"p", "o",
       "r", "t", "r", "a", "i", "t">>, <<"u8096", "u50CF">>, <<"u4EBA",
       "u7269">>, <<"c", "h", "a", "r", "a", "c", "t", "e", "r">>, <<"u89D2",
       "u8272">>>>],
    \* Product & Mockup
    [label |-> <<"P", "r", "o", "d", "u", "c", "t", " ", "&", " ", "M", "o",
       "c", "k", "u", "p">>, keywords |-> <<<<"p", "r", "o", "d", "u", "c",
       "t">>, <<"u4EA7", "u54C1">>, <<"m", "o", "c", "k", "u", "p">>,
       <<"u952E", "u5E3D">>, <<"k", "e", "y", "c", "a", "p">>, <<"j", "e",
       "w", "e", "l", "r", "y">>>>],
    \* Style Transfer
    [label |-> <<"S", "t", "y", "l", "e", " ", "T", "r", "a", "n", "s", "f",
       "e", "r">>, keywords |-> <<<<"s", "t", "y", "l", "e">>, <<"u98CE",
       "u683C">>, <<"t", "r", "a", "n", "s", "f", "o", "r", "m">>, <<"u8F6C",
       "u6362">>, <<"u53D8", "u6362">>>>],
    \* Scene & Environment
    [label |-> <<"S", "c", "e", "n", "e", " ", "&", " ", "E", "n", "v", "i",
       "r", "o", "n", "m", "e", "n", "t">>, keywords |-> <<<<"s", "c", "e",
       "n", "e">>, <<"u573A", "u666F">>, <<"l", "a", "n", "d", "s", "c", "a",
       "p", "e">>, <<"u666F", "u89C2">>, <<"e", "n", "v", "i", "r", "o", "n",
       "m", "e", "n", "t">>>>],
    \* Icon & Logo
    [label |-> <<"I", "c", "o", "n", " ", "&", " ", "L", "o", "g", "o">>,
       keywords |-> <<<<"i", "c", "o", "n">>, <<"l", "o", "g", "o">>,
       <<"u56FE", "u6807">>, <<"u6807", "u5FD7">>, <<"b", "a", "d", "g",
       "e">>, <<"u5FBD", "u7AE0">>>>],
    \* Creative Art
    [label |-> <<"C", "r", "e", "a", "t", "i", "v", "e", " ", "A", "r", "t">>,
       keywords |-> <<<<"a", "r", "t">>, <<"u827A", "u672F">>, <<"c", "r",
       "e", "a", "t", "i", "v", "e">>, <<"u521B", "u610F">>>>],
    \* Miniature & Toy
    [label |-> <<"M", "i", "n", "i", "a", "t", "u", "r", "e", " ", "&", " ",
       "T", "o", "y">>, keywords |-> <<<<"m", "i", "n", "i", "a", "t", "u",
       "r", "e">>, <<"u8FF7", "u4F60">>, <<"t", "o", "y">>, <<"u73A9",
       "u5177">>, <<"f", "i", "g", "u", "r", "e">>, <<"u624B", "u529E">>>>],
    \* Text & Typography
    [label |-> <<"T", "e", "x", "t", " ", "&", " ", "T", "y", "p", "o", "g",
       "r", "a", "p", "h", "y">>, keywords |-> <<<<"t", "e", "x", "t">>,
       <<"u6587", "u5B57">>, <<"t", "y", "p", "o", "g", "r", "a", "p", "h",
       "y">>, <<"u5B57", "u4F53">>>>],
    \* Food & Object
    [label |-> <<"F", "o", "o", "d", " ", "&", " ", "O", "b", "j", "e", "c",
       "t">>, keywords |-> <<<<"f", "o", "o", "d">>, <<"u98DF", "u7269">>,
       <<"o", "b", "j", "e", "c", "t">>, <<"u7269", "u4F53">>>>] >>

General == <<"G", "e", "n", "e", "r", "a", "l">>

\* translations
translations ==
  <<
    \* Real Object with Hand-drawn Doodle Creative Ad
    [title |-> <<"u5B9E", "u7269", "u4E0E", "u624B", "u7ED8", "u6D82",
       "u9E26", "u521B", "u610F", "u5E7F", "u544A">>, en |-> <<"R", "e", "a",
       "l", " ", "O", "b", "j", "e", "c", "t", " ", "w", "i", "t", "h", " ",
       "H", "a", "n", "d", "-", "d", "r", "a", "w", "n", " ", "D", "o", "o",
       "d", "l", "e", " ", "C", "r", "e", "a", "t", "i", "v", "e", " ", "A",
       "d">>],
    \* Black and White Portrait Art
    [title |-> <<"u9ED1", "u767D", "u8096", "u50CF", "u827A", "u672F">>, en
       |-> <<"B", "l", "a", "c", "k", " ", "a", "n", "d", " ", "W", "h", "i",
       "t", "e", " ", "P", "o", "r", "t", "r", "a", "i", "t", " ", "A", "r",
       "t">>],
    \* Silhouette Behind Frosted Glass
    [title |-> <<"u78E8", "u7802", "u73BB", "u7483", "u540E", "u7684",
       "u865A", "u5B9E", "u5BF9", "u6BD4", "u526A", "u5F71">>, en |-> <<"S",
       "i", "l", "h", "o", "u", "e", "t", "t", "e", " ", "B", "e", "h", "i",
       "n", "d", " ", "F", "r", "o", "s", "t", "e", "d", " ", "G", "l", "a",
       "s", "s">>],
    \* Cute Cozy Knitted Doll
    [title |-> <<"u53EF", "u7231", "u6E29", "u99A8", "u9488", "u7EC7",
       "u73A9", "u5076">>, en |-> <<"C", "u", "t", "e", " ", "C", "o", "z",
       "y", " ", "K", "n", "i", "t", "t", "e", "d", " ", "D", "o", "l", "l">>],
    \* Custom Anime Figure
    [title |-> <<"u5B9A", "u5236", "u52A8", "u6F2B", "u624B", "u529E">>, en
       |-> <<"C", "u", "s", "t", "o", "m", " ", "A", "n", "i", "m", "e", " ",
       "F", "i", "g", "u", "r", "e">>],
    \* Glass Texture Retexturing
    [title |-> <<"u73BB", "u7483", "u8D28", "u611F", "u91CD", "u5851">>, en
       |-> <<"G", "l", "a", "s", "s", " ", "T", "e", "x", "t", "u", "r", "e",
       " ", "R", "e", "t", "e", "x", "t", "u", "r", "i", "n", "g">>],
    \* 3D Pop-out Perspective Effect
    [title |-> <<"u900F", "u89C6", "3", "D", "u51FA", "u5C4F", "u6548",
       "u679C">>, en |-> <<"3", "D", " ", "P", "o", "p", "-", "o", "u", "t",
       " ", "P", "e", "r", "s", "p", "e", "c", "t", "i", "v", "e", " ", "E",
       "f", "f", "e", "c", "t">>],
    \* LEGO City Landscape
    [title |-> <<"u4E50", "u9AD8", "u57CE", "u5E02", "u666F", "u89C2">>, en
       |-> <<"L", "E", "G", "O", " ", "C", "i", "t", "y", " ", "L", "a", "n",
       "d", "s", "c", "a", "p", "e">>],
    \* Crystal Ball Story Scene
    [title |-> <<"u6C34", "u6676", "u7403", "u6545", "u4E8B", "u573A",
       "u666F">>, en |-> <<"C", "r", "y", "s", "t", "a", "l", " ", "B", "a",
       "l", "l", " ", "S", "t", "o", "r", "y", " ", "S", "c", "e", "n", "e">>] >>

\* SCHEMA: the choices of the singleSelect field "Category".
CategoryChoices ==
  {
    \* Portrait & Character
    <<"P", "o", "r", "t", "r", "a", "i", "t", " ", "&", " ", "C", "h", "a",
       "r", "a", "c", "t", "e", "r">>,
    \* Product & Mockup
    <<"P", "r", "o", "d", "u", "c", "t", " ", "&", " ", "M", "o", "c", "k",
       "u", "p">>,
    \* Style Transfer
    <<"S", "t", "y", "l", "e", " ", "T", "r", "a", "n", "s", "f", "e", "r">>,
    \* Scene & Environment
    <<"S", "c", "e", "n", "e", " ", "&", " ", "E", "n", "v", "i", "r", "o",
       "n", "m", "e", "n", "t">>,
    \* Icon & Logo
    <<"I", "c", "o", "n", " ", "&", " ", "L", "o", "g", "o">>,
    \* Creative Art
    <<"C", "r", "e", "a", "t", "i", "v", "e", " ", "A", "r", "t">>,
    \* Miniature & Toy
    <<"M", "i", "n", "i", "a", "t", "u", "r", "e", " ", "&", " ", "T", "o",
       "y">>,
    \* Text & Typography
    <<"T", "e", "x", "t", " ", "&", " ", "T", "y", "p", "o", "g", "r", "a",
       "p", "h", "y">>,
    \* Food & Object
    <<"F", "o", "o", "d", " ", "&", " ", "O", "b", "j", "e", "c", "t">>,
    \* General
    <<"G", "e", "n", "e", "r", "a", "l">> }

\* GitHubScraper.REPOS
REPOS ==
  <<
    \* JimmyLv/awesome-nano-banana
    [owner |-> <<"J", "i", "m", "m", "y", "L", "v">>, repo |-> <<"a", "w",
       "e", "s", "o", "m", "e", "-", "n", "a", "n", "o", "-", "b", "a", "n",
       "a", "n", "a">>, readme_path |-> <<"R", "E", "A", "D", "M", "E", ".",
       "m", "d">>, branch |-> <<"m", "a", "i", "n">>],
    \* ZeroLu/awesome-nanobanana-pro
    [owner |-> <<"Z", "e", "r", "o", "L", "u">>, repo |-> <<"a", "w", "e",
       "s", "o", "m", "e", "-", "n", "a", "n", "o", "b", "a", "n", "a", "n",
       "a", "-", "p", "r", "o">>, readme_path |-> <<"R", "E", "A", "D", "M",
       "E", ".", "m", "d">>, branch |-> <<"m", "a", "i", "n">>],
    \* PicoTrex/Awesome-Nano-Banana-images
    [owner |-> <<"P", "i", "c", "o", "T", "r", "e", "x">>, repo |-> <<"A",
       "w", "e", "s", "o", "m", "e", "-", "N", "a", "n", "o", "-", "B", "a",
       "n", "a", "n", "a", "-", "i", "m", "a", "g", "e", "s">>, readme_path
       |-> <<"R", "E", "A", "D", "M", "E", "_", "e", "n", ".", "m", "d">>,
       branch |-> <<"m", "a", "i", "n">>],
    \* Super-Maker-AI/awesome-nano-banana
    [owner |-> <<"S", "u", "p", "e", "r", "-", "M", "a", "k", "e", "r", "-",
       "A", "I">>, repo |-> <<"a", "w", "e", "s", "o", "m", "e", "-", "n",
       "a", "n", "o", "-", "b", "a", "n", "a", "n", "a">>, readme_path |->
       <<"R", "E", "A", "D", "M", "E", ".", "m", "d">>, branch |-> <<"m", "a",
       "i", "n">>],
    \* muset-ai/awesome-nano-banana-pro
    [owner |-> <<"m", "u", "s", "e", "t", "-", "a", "i">>, repo |-> <<"a",
       "w", "e", "s", "o", "m", "e", "-", "n", "a", "n", "o", "-", "b", "a",
       "n", "a", "n", "a", "-", "p", "r", "o">>, readme_path |-> <<"R", "E",
       "A", "D", "M", "E", ".", "m", "d">>, branch |-> <<"m", "a", "i", "n">>] >>

\* [\u4e00-\u9fff], restricted to the characters of this model.
HanChars ==
  {"u4E09", "u4E0A", "u4E0E", "u4E50", "u4E8B", "u4EA7", "u4EBA", "u4F20",
     "u4F53", "u4F60", "u4F8B", "u5076", "u50CF", "u514B", "u5177", "u5199",
     "u51FA", "u521B", "u5236", "u526A", "u529B", "u529E", "u52A8", "u535A",
     "u535C", "u53C2", "u53D8", "u53E4", "u53EF", "u5409", "u540E", "u544A",
     "u54C1", "u56FE", "u573A", "u57CE", "u5851", "u590D", "u5B57", "u5B9A",
     "u5B9E", "u5BF9", "u5C4F", "u5E02", "u5E3D", "u5E7F", "u5F71", "u5FBD",
     "u5FD7", "u6000", "u60C5", "u610F", "u611F", "u624B", "u62A5", "u6362",
     "u63D0", "u6545", "u6548", "u6587", "u65AF", "u65E7", "u666F", "u6676",
     "u670B", "u672F", "u6781", "u679C", "u6807", "u683C", "u6848", "u6BD4",
     "u6C34", "u6C7D", "u6CE8", "u6D77", "u6D82", "u6E29", "u6F2B", "u7231",
     "u7247", "u7248", "u7269", "u73A9", "u73B0", "u73BB", "u73D0", "u7403",
     "u7405", "u7483", "u753B", "u767D", "u7684", "u76AE", "u7802", "u78E8",
     "u793A", "u7ACB", "u7AE0", "u7B80", "u7D20", "u7EA6", "u7EC7", "u7ED8",
     "u7EF4", "u8003", "u8096", "u8272", "u827A", "u84B8", "u865A", "u8868",
     "u89C2", "u89C6", "u89D2", "u8BCD", "u8D28", "u8D5B", "u8D85", "u8F6C",
     "u8FF7", "u900F", "u91CD", "u9488", "u94A9", "u952E", "u9700", "u98CE",
     "u98DF", "u99A8", "u9AD8", "u9E26", "u9ED1"}

------------------------------------------------------------------------------
(* The passes of _parse_case_section over one segment.                     *)

\* !\[([^\]]*)\]\(([^\)]+)\) matched at position i.
ImageAt(s, i) ==
  /\ StartsWithAt(s, i, <<"!", "[">>)
  /\ LET a == RunEndNot(s, i + 2, {"]"})
     IN /\ a + 1 <= Len(s) /\ s[a + 1] = "("
        /\ LET u == RunEndNot(s, a + 2, {")"})
           IN u > a + 2 /\ u <= Len(s)

\* The position of the ")" that closes the image matched at position i.
ImageEnd(s, i) == RunEndNot(s, RunEndNot(s, i + 2, {"]"}) + 2, {")"})

\* re.findall of the image pattern from position i on: the (alt, url) pairs
\* of the non-overlapping matches, left to right.
RECURSIVE FindImages(_, _)
FindImages(s, i) ==
  IF i > Len(s) THEN <<>>
  ELSE IF ImageAt(s, i)
       THEN LET a == RunEndNot(s, i + 2, {"]"})
                u == ImageEnd(s, i)
            IN <<[alt |-> SubSeq(s, i + 2, a - 1),
                  url |-> SubSeq(s, a + 2, u - 1)]>> \o FindImages(s, u + 1)
       ELSE FindImages(s, i + 1)

KwGemini == <<"g", "e", "m", "i", "n", "i">>
KwGpt == <<"g", "p", "t">>
Kw4o == <<"4", "o">>

\* One turn of the image loop: the slots after the image img.
ImageStepKeepsFirst(slots, img) ==
  LET alt_lower == Lower(img.alt)
  IN IF Contains(alt_lower, KwGemini)
     THEN IF ~ Truthy(slots.gemini_img)
          THEN [slots EXCEPT !.gemini_img = Some(img.url)]
          ELSE slots
     ELSE IF Contains(alt_lower, KwGpt) \/ Contains(alt_lower, Kw4o)
     THEN [slots EXCEPT !.gpt4o_img = Some(img.url)]
     ELSE IF ~ Truthy(slots.gemini_img)
     THEN [slots EXCEPT !.gemini_img = Some(img.url)]
     ELSE slots

ImageStepLastWins(slots, img) ==
  LET alt_lower == Lower(img.alt)
  IN IF Contains(alt_lower, KwGemini)
     THEN [slots EXCEPT !.gemini_img = Some(img.url)]
     ELSE IF Contains(alt_lower, KwGpt) \/ Contains(alt_lower, Kw4o)
     THEN [slots EXCEPT !.gpt4o_img = Some(img.url)]
     ELSE [slots EXCEPT !.gemini_img = Some(img.url)]

ImageStep(slots, img) ==
  LET alt_lower == Lower(img.alt)
  IN IF Contains(alt_lower, KwGemini)
     THEN [slots EXCEPT !.gemini_img = Some(img.url)]
     ELSE IF Contains(alt_lower, KwGpt) \/ Contains(alt_lower, Kw4o)
     THEN [slots EXCEPT !.gpt4o_img = Some(img.url)]
     ELSE IF ~ Truthy(slots.gemini_img)
     THEN [slots EXCEPT !.gemini_img = Some(img.url)]
     ELSE slots

\* The image loop over the matches, in order.
RECURSIVE AssignImages(_, _)
AssignImages(imgs, slots) ==
  IF imgs = <<>> THEN slots
  ELSE AssignImages(Tail(imgs), ImageStep(slots, Head(imgs)))

ExtractImages(section) ==
  AssignImages(FindImages(section, 1), [gemini_img |-> None, gpt4o_img |-> None])

\* [FWColon\s]
PromptSep == WS \cup {FWColon}

ZhPromptMarks == { <<"u63D0", "u793A", "u8BCD">> }
EnPromptMarks == { <<"P", "r", "o", "m", "p", "t">>, <<"p", "r", "o", "m", "p", "t">> }

\* (?=\n\n注意|需上传|$) without the $
ZhPromptStops ==
  { <<NL, NL, "u6CE8", "u610F">>,
    <<"u9700", "u4E0A", "u4F20">> }

\* (?=\n\n(?:Note|Reference|注意)|$) without the $
EnPromptStops ==
  { <<NL, NL, "N", "o", "t", "e">>,
    <<NL, NL, "R", "e", "f", "e", "r", "e", "n", "c", "e">>,
    <<NL, NL, "u6CE8", "u610F">> }

\* $ without re.MULTILINE: the end, or just before a final newline.
AtEnd(s, e) == e = Len(s) + 1 \/ (e = Len(s) /\ s[e] = NL)

\* The newlines that \n+ can take after marker[FWColon\s]* , marker ending
\* before position m, when one character at least is left for the group.
PromptBreaks(s, m) ==
  {x \in m..(RunEnd(s, m, PromptSep) - 1) : s[x] = NL /\ x < Len(s)}

\* marker[FWColon\s]*\n+([\s\S]+?)(?=stops|$) matched at position p.
PromptAt(s, p, marks) ==
  \E mk \in marks : StartsWithAt(s, p, mk) /\ PromptBreaks(s, p + Len(mk)) # {}

\* Group 1 of that match: [FWColon\s]* takes what it can, \n+ what it can
\* after it, and the group is the shortest text a stop follows.
PromptGroup(s, p, marks, stops) ==
  LET mk == CHOOSE mk \in marks : StartsWithAt(s, p, mk)
      m  == p + Len(mk)
      x  == Max(PromptBreaks(s, m))
      y  == Max({j \in (x + 1)..Len(s) : \A k \in x..(j - 1) : s[k] = NL})
      k  == Min({n \in 1..(Len(s) - y + 1) :
                   \/ AtEnd(s, y + n)
                   \/ \E st \in stops : StartsWithAt(s, y + n, st)})
  IN SubSeq(s, y, y + k - 1)

\* re.search of a prompt pattern: None, or group 1 of the leftmost match.
PromptSearch(s, marks, stops) ==
  LET hits == {p \in 1..Len(s) : PromptAt(s, p, marks)}
  IN IF hits = {} THEN None ELSE Some(PromptGroup(s, Min(hits), marks, stops))

\* The prompt pass, had the English text always become the prompt.
ExtractPromptsEnglishFirst(section) ==
  LET zh_prompt_match == PromptSearch(section, ZhPromptMarks, ZhPromptStops)
      en_prompt_match == PromptSearch(section, EnPromptMarks, EnPromptStops)
      zh == IF zh_prompt_match # None THEN Strip(zh_prompt_match[1]) ELSE <<>>
  IN IF en_prompt_match # None
     THEN [prompt    |-> Strip(en_prompt_match[1]),
           prompt_en |-> Some(Strip(en_prompt_match[1]))]
     ELSE [prompt |-> zh, prompt_en |-> None]

\* The prompt pass: (prompt, prompt_en).
ExtractPrompts(section) ==
  LET zh_prompt_match == PromptSearch(section, ZhPromptMarks, ZhPromptStops)
      en_prompt_match == PromptSearch(section, EnPromptMarks, EnPromptStops)
      zh == IF zh_prompt_match # None THEN Strip(zh_prompt_match[1]) ELSE <<>>
  IN IF en_prompt_match # None
     THEN [prompt    |-> IF zh = <<>> THEN Strip(en_prompt_match[1]) ELSE zh,
           prompt_en |-> Some(Strip(en_prompt_match[1]))]
     ELSE [prompt |-> zh, prompt_en |-> None]

\* 需上传参考图片|Reference Image Required
RefMarks ==
  { <<"u9700", "u4E0A", "u4F20", "u53C2", "u8003", "u56FE", "u7247">>,
    <<"R", "e", "f", "e", "r", "e", "n", "c", "e", " ", "I", "m", "a", "g", "e",
      " ", "R", "e", "q", "u", "i", "r", "e", "d">> }

RefRequired(section) ==
  \E p \in 1..Len(section), mk \in RefMarks : StartsWithAt(section, p, mk)

\* The characters at which (.+?) can start after marker[FWColon:]\s* , the
\* separator standing before position q.
RefStarts(s, q) == {x \in q..Len(s) : x <= RunEnd(s, q, WS) /\ s[x] # NL}

\* (?:marker)[FWColon:]\s*(.+?)(?:\n|$) matched at position p.
RefAt(s, p) ==
  \E mk \in RefMarks :
    /\ StartsWithAt(s, p, mk)
    /\ p + Len(mk) <= Len(s)
    /\ s[p + Len(mk)] \in Separators
    /\ RefStarts(s, p + Len(mk) + 1) # {}

\* re.search of the reference note: None, or the stripped group 1.
RefNote(s) ==
  LET hits == {p \in 1..Len(s) : RefAt(s, p)}
  IN IF hits = {} THEN None
     ELSE LET p  == Min(hits)
              mk == CHOOSE mk \in RefMarks : StartsWithAt(s, p, mk)
              x  == Max(RefStarts(s, p + Len(mk) + 1))
          IN Some(Strip(SubSeq(s, x, RunEndNot(s, x, {NL}) - 1)))

\* f"{title} {prompt}".lower()
Combined(title, prompt) == Lower(title \o <<" ">> \o prompt)

\* any(kw in text for kw in keywords)
AnyKeyword(keywords, text) ==
  \E i \in 1..Len(keywords) : Contains(text, keywords[i])

\* _extract_tags
_extract_tags(title, prompt) ==
  LET combined_text == Combined(title, prompt)
      Hit(e) == \E i \in 1..Len(e.keywords) :
                  Contains(combined_text, Lower(e.keywords[i]))
      hits == SelectSeq(tag_keywords, Hit)
  IN [i \in 1..Len(hits) |-> hits[i].label]

\* The entries of the category table that have a keyword in the text.
CategoryHits(combined) ==
  {i \in 1..Len(categories) : AnyKeyword(categories[i].keywords, combined)}

\* _categorize_case, had the last matching entry won.
_categorize_case_last(title, prompt, tags) ==
  LET combined == Combined(title, prompt)
  IN IF CategoryHits(combined) = {} THEN General
     ELSE categories[Max(CategoryHits(combined))].label

\* _categorize_case
_categorize_case(title, prompt, tags) ==
  LET combined == Combined(title, prompt)
  IN IF CategoryHits(combined) = {} THEN General
     ELSE categories[Min(CategoryHits(combined))].label

\* _is_chinese
_is_chinese(text) == \E i \in 1..Len(text) : text[i] \in HanChars

\* _translate_title
_translate_title(title) ==
  IF \E i \in 1..Len(translations) : translations[i].title = title
  THEN translations[CHOOSE i \in 1..Len(translations) :
                      translations[i].title = title].en
  ELSE title

\* hashlib.md5(text.encode()).hexdigest()[:12], the hash taken to be
\* injective: the fingerprint of a text is named by the text.
Md5Hex12(text) == <<"md5">> \o text

\* The text hashed into case_id: f"{repo_info['repo']}_{case_number}_{title}"
CaseIdText(repo_info, case_number, title) ==
  repo_info.repo \o <<"_">> \o StrOfInt(case_number) \o <<"_">> \o title

\* f"https://github.com/{repo_info['owner']}/{repo_info['repo']}"
RepoUrl(repo_info) ==
  <<"h", "t", "t", "p", "s", ":", "/", "/", "g", "i", "t", "h", "u", "b", ".",
    "c", "o", "m", "/">> \o repo_info.owner \o <<"/">> \o repo_info.repo

\* The author and author_url of a header line with the groups m.
ResolveAuthor(line, m) ==
  LET stripped == IF m.by # None THEN Some(Strip(m.by[1])) ELSE None
      author == IF Truthy(stripped) THEN Some(CleanAuthor(stripped[1]))
                ELSE IF m.by # None /\ Truthy(m.by) THEN stripped
                ELSE None
      author_match == LinkSearch(line)
  IN IF author_match # None
     THEN [author |-> Some(author_match[1].label),
           author_url |-> Some(author_match[1].url)]
     ELSE [author |-> author, author_url |-> None]

\* _parse_case_section: None, or the record of the segment; now is the
\* reading of the clock.
_parse_case_section(section, repo_info, repo_url, now) ==
  LET line == FirstLine(Strip(section))
      header_match == HeaderMatch(line)
  IN IF header_match = None THEN None
     ELSE
       LET m == header_match[1]
           case_number == IntOfDigits(m.number)
           title == Strip(m.title)
           who == ResolveAuthor(line, m)
           img == ExtractImages(section)
           pr == ExtractPrompts(section)
           tags == _extract_tags(title, pr.prompt)
       IN Some([case_id |-> Md5Hex12(CaseIdText(repo_info, case_number, title)),
                case_number |-> case_number,
                title |-> title,
                title_en |-> Some(IF _is_chinese(title) THEN _translate_title(title)
                                  ELSE title),
                prompt |-> pr.prompt,
                prompt_en |-> pr.prompt_en,
                author |-> who.author,
                author_url |-> who.author_url,
                source_repo |-> repo_info.owner \o <<"/">> \o repo_info.repo,
                source_url |-> repo_url,
                gemini_image_url |-> img.gemini_img,
                gpt4o_image_url |-> img.gpt4o_img,
                reference_image_required |-> RefRequired(section),
                reference_image_note |-> RefNote(section),
                tags |-> tags,
                category |-> _categorize_case(title, pr.prompt, tags),
                scraped_at |-> now])

------------------------------------------------------------------------------
(* parse_readme_cases                                                      *)

\* The positions at which re.split cuts the document: every position where
\* the header pattern starts (an empty match of the lookahead).
Cuts(content) == {p \in 1..Len(content) : HeaderStartsAt(content, p)}

\* sections[1:] of re.split: the text from each cut to the next one, in
\* document order; the text before the first cut is sections[0].
RECURSIVE SectionsFrom(_, _)
SectionsFrom(content, p) ==
  LET later == {c \in Cuts(content) : c > p}
      e == IF later = {} THEN Len(content) + 1 ELSE Min(later)
  IN <<SubSeq(content, p, e - 1)>> \o
       (IF later = {} THEN <<>> ELSE SectionsFrom(content, e))

\* re.split, had the loop not skipped sections[0].
SectionsWithLeading(content) ==
  IF Cuts(content) = {} THEN <<content>>
  ELSE <<SubSeq(content, 1, Min(Cuts(content)) - 1)>>
         \o SectionsFrom(content, Min(Cuts(content)))

Sections(content) ==
  IF Cuts(content) = {} THEN <<>>
  ELSE SectionsFrom(content, Min(Cuts(content)))

\* The loop over the sections: the records of those that parse, in order.
RECURSIVE ParseSections(_, _, _)
ParseSections(sections, repo_info, now) ==
  IF sections = <<>> THEN <<>>
  ELSE LET case == _parse_case_section(Head(sections), repo_info,
                                    RepoUrl(repo_info), now)
       IN case \o ParseSections(Tail(sections), repo_info, now)

\* The sequence s backwards.
Reverse(s) == [k \in 1..Len(s) |-> s[Len(s) + 1 - k]]

\* parse_readme_cases, had the records come out last section first.
parse_readme_cases_reversed(content, repo_info, now) ==
  Reverse(ParseSections(Sections(content), repo_info, now))

parse_readme_cases(content, repo_info, now) ==
  ParseSections(Sections(content), repo_info, now)

------------------------------------------------------------------------------
(* AirtableClient and the file exports.                                    *)

\* ", ".join(tags)
RECURSIVE JoinTags(_)
JoinTags(tags) ==
  IF tags = <<>> THEN <<>>
  ELSE IF Len(tags) = 1 THEN tags[1]
  ELSE tags[1] \o <<",", " ">> \o JoinTags(Tail(tags))

\* The Airtable limit on a prompt.
PromptLimit == 100000

\* text[:100000]
Truncate(text) ==
  IF Len(text) > PromptLimit THEN SubSeq(text, 1, PromptLimit) ELSE text

\* The field mapping of one record in batch_create_records.
Fields(case) ==
  LET fields ==
        [f \in {"Case ID", "Case Number", "Title", "Title (EN)", "Prompt",
                "Prompt (EN)", "Author", "Author URL", "Source Repo",
                "Source URL", "Gemini Image URL", "GPT-4o Image URL",
                "Reference Required", "Reference Note", "Tags", "Category",
                "Scraped At"} |->
           CASE f = "Case ID" -> case.case_id
             [] f = "Case Number" -> case.case_number
             [] f = "Title" -> case.title
             [] f = "Title (EN)" -> OrEmpty(case.title_en)
             [] f = "Prompt" -> Truncate(case.prompt)
             [] f = "Prompt (EN)" -> Truncate(OrEmpty(case.prompt_en))
             [] f = "Author" -> OrEmpty(case.author)
             [] f = "Author URL" -> OrEmpty(case.author_url)
             [] f = "Source Repo" -> case.source_repo
             [] f = "Source URL" -> case.source_url
             [] f = "Gemini Image URL" -> OrEmpty(case.gemini_image_url)
             [] f = "GPT-4o Image URL" -> OrEmpty(case.gpt4o_image_url)
             [] f = "Reference Required" -> case.reference_image_required
             [] f = "Reference Note" -> OrEmpty(case.reference_image_note)
             [] f = "Tags" -> JoinTags(case.tags)
             [] f = "Category" -> case.category
             [] f = "Scraped At" -> case.scraped_at]
      gemini == IF Truthy(case.gemini_image_url)
                THEN "Gemini Image" :> <<[url |-> case.gemini_image_url[1]]>>
                ELSE <<>>
      gpt4o == IF Truthy(case.gpt4o_image_url)
               THEN "GPT-4o Image" :> <<[url |-> case.gpt4o_image_url[1]]>>
               ELSE <<>>
  IN [fields |-> fields @@ gemini @@ gpt4o]

\* The default of the batch_size parameter of batch_create_records.
DefaultBatchSize == 10

\* BatchSlice, had the slice ended one record early.
BatchSliceShort(cases, i, size) ==
  SubSeq(cases, i + 1,
         IF i + size - 1 < Len(cases) THEN i + size - 1 ELSE Len(cases))

\* cases[i:i + batch_size], i counted from 0.
BatchSlice(cases, i, size) ==
  SubSeq(cases, i + 1, IF i + size < Len(cases) THEN i + size ELSE Len(cases))

\* The records of one request of batch_create_records.
BatchRecords(cases, i, size) ==
  LET batch == BatchSlice(cases, i, size)
  IN [k \in 1..Len(batch) |-> Fields(batch[k])]

\* The keys that one page of the listing adds to case_ids: the "Case ID" of
\* each record that has a truthy one.
PageKeys(records) ==
  {records[k][1] : k \in {j \in 1..Len(records) : Truthy(records[j])}}

\* [c for c in cases if c.case_id not in existing_ids]
NewCases(cases, existing_ids) ==
  LET Fresh(c) == c.case_id \notin existing_ids
  IN SelectSeq(cases, Fresh)

\* The row that export_to_csv writes for one record.
CsvRow(case) == [case EXCEPT !.tags = JoinTags(case.tags)]

\* The file export_to_json leaves behind.
JsonFile(cases) == Some(cases)

\* The file export_to_csv leaves behind, over the file found there: nothing
\* is written for an empty list.
CsvFile(cases, old) ==
  IF cases = <<>> THEN old
  ELSE Some([k \in 1..Len(cases) |-> CsvRow(cases[k])])

\* args.x or os.environ.get(X)
OrEnv(arg, env) == IF Truthy(arg) THEN arg ELSE env

\* UploadEnabled, had the flag --skip-airtable been ignored.
UploadEnabledDespiteFlag(a, e) ==
  /\ Truthy(OrEnv(a.airtable_key, e.AIRTABLE_API_KEY))
  /\ Truthy(OrEnv(a.airtable_base, e.AIRTABLE_BASE_ID))

\* not args.skip_airtable and airtable_key and airtable_base
UploadEnabled(a, e) ==
  /\ ~ a.skip_airtable
  /\ Truthy(OrEnv(a.airtable_key, e.AIRTABLE_API_KEY))
  /\ Truthy(OrEnv(a.airtable_base, e.AIRTABLE_BASE_ID))

------------------------------------------------------------------------------
(* The run of main() and the calls of the methods.                         *)

VARIABLES
  pc,          \* the position of the program
  caller,      \* "main", or "none" for a method called on its own
  args,        \* the parsed command line
  env,         \* the environment
  repo_i,      \* scrape_all_repos: the index of the next source
  all_cases,   \* scrape_all_repos: the records so far
  served,      \* what the fetch answered for each source visited (0: failed)
  clock,       \* the reading of the clock
  console,     \* the lines printed
  json_file,   \* the JSON export on disk
  csv_file,    \* the CSV export on disk
  requests,    \* the requests made to the store, with their answers
  offset,      \* get_existing_case_ids: the cursor
  case_ids,    \* get_existing_case_ids: the keys read
  new_cases,   \* the cases argument of batch_create_records
  batch_size,  \* batch_create_records: batch_size
  batch_i,     \* batch_create_records: i
  results,     \* batch_create_records: results
  arg,         \* the argument of a function called on its own
  ret          \* its result

vars ==
  <<pc, caller, args, env, repo_i, all_cases, served, clock, console,
    json_file, csv_file, requests, offset, case_ids, new_cases, batch_size,
    batch_i, results, arg, ret>>

scrape_vars == <<repo_i, all_cases, served, clock>>
file_vars == <<json_file, csv_file>>
list_vars == <<offset, case_ids>>
batch_vars == <<new_cases, batch_size, batch_i, results>>
call_vars == <<arg, ret>>
conf_vars == <<caller, args, env>>

\* intro / ## Case 2: B / ## Case 7 / ## Case 1: A
DocOutOfOrder ==
  <<"i", "n", "t", "r", "o", NL, "#", "#", " ", "C", "a", "s", "e", " ", "2",
     ":", " ", "B", NL, "#", "#", " ", "C", "a", "s", "e", " ", "7", NL, "#",
     "#", " ", "C", "a", "s", "e", " ", "1", ":", " ", "A", NL>>

\* ### Case 1: A / ![x](u)
DocOneCase ==
  <<"#", "#", "#", " ", "C", "a", "s", "e", " ", "1", ":", " ", "A", NL, "!",
     "[", "x", "]", "(", "u", ")">>

\* intro
DocNoCase == <<"i", "n", "t", "r", "o">>

\* The documents that the fetch of each source can return.
Readmes ==
  << <<DocOutOfOrder, DocOneCase>>,
     <<DocOneCase>>,
     <<DocNoCase>>,
     <<DocOutOfOrder>>,
     <<DocOneCase>> >>

\* The choices of the answer of a successful fetch for source i.
ReadmeChoices(i) == IF i \in 1..Len(Readmes) THEN 1..Len(Readmes[i]) ELSE {}

\* The values of a command-line option and of an environment variable.
ArgChoices == {None, Some(<<>>), Some(<<"k">>)}
EnvChoices == {None, Some(<<"e">>)}

\* The pages of keys that the store can return: each record of a page has a
\* "Case ID" or none.
PageChoices ==
  { <<>>,
    <<Some(Md5Hex12(CaseIdText(REPOS[1], 1, <<"A">>)))>>,
    <<None, Some(<<>>), Some(Md5Hex12(CaseIdText(REPOS[2], 2, <<"B">>)))>> }

\* The cursors that the store can return with a page that is not the last.
Cursors == {Some(<<"o">>)}

\* The answers of the store that end the listing.
NoCursors == {None, Some(<<>>)}

\* The longest listing: the store has no more pages than this.
MaxPages == 2

Init ==
  /\ pc = "scrape"
  /\ caller = "main"
  /\ args \in [skip_airtable : BOOLEAN, airtable_key : ArgChoices,
               airtable_base : ArgChoices]
  /\ env \in [AIRTABLE_API_KEY : EnvChoices, AIRTABLE_BASE_ID : EnvChoices]
  /\ repo_i = 1
  /\ all_cases = <<>>
  /\ served = <<>>
  /\ clock = 0
  /\ console = <<>>
  /\ json_file = None
  /\ csv_file = None
  /\ requests = <<>>
  /\ offset = None
  /\ case_ids = {}
  /\ new_cases = <<>>
  /\ batch_size = DefaultBatchSize
  /\ batch_i = 0
  /\ results = <<>>
  /\ arg = None
  /\ ret = None

\* scrape_all_repos, one turn of the loop: the fetch returns document d.
ScrapeFetched(d) ==
  /\ pc = "scrape"
  /\ repo_i <= Len(REPOS)
  /\ all_cases' =
       all_cases \o parse_readme_cases(Readmes[repo_i][d], REPOS[repo_i], clock)
  /\ served' = Append(served, d)
  /\ repo_i' = repo_i + 1
  /\ clock' = clock + 1
  /\ console' = console
  /\ UNCHANGED <<pc, conf_vars, file_vars, requests, list_vars, batch_vars,
                 call_vars>>

\* ScrapeFailed, had the loop no try/except: the failure ends the loop.
ScrapeFailedEndsLoop ==
  /\ pc = "scrape"
  /\ repo_i <= Len(REPOS)
  /\ served' = Append(served, 0)
  /\ repo_i' = Len(REPOS) + 1
  /\ clock' = clock + 1
  /\ console' = Append(console, "Error")
  /\ UNCHANGED <<pc, conf_vars, all_cases, file_vars, requests, list_vars,
                 batch_vars, call_vars>>

\* scrape_all_repos, one turn of the loop: the fetch raises.
ScrapeFailed ==
  /\ pc = "scrape"
  /\ repo_i <= Len(REPOS)
  /\ served' = Append(served, 0)
  /\ repo_i' = repo_i + 1
  /\ clock' = clock + 1
  /\ console' = Append(console, "Error")
  /\ UNCHANGED <<pc, conf_vars, all_cases, file_vars, requests, list_vars,
                 batch_vars, call_vars>>

\* scrape_all_repos returns; main writes the two exports.
Export ==
  /\ pc = "scrape"
  /\ repo_i > Len(REPOS)
  /\ json_file' = JsonFile(all_cases)
  /\ csv_file' = CsvFile(all_cases, csv_file)
  /\ pc' = "exported"
  /\ UNCHANGED <<conf_vars, scrape_vars, console, requests, list_vars,
                 batch_vars, call_vars>>

\* main: the upload is enabled.
StartUpload ==
  /\ pc = "exported"
  /\ UploadEnabled(args, env)
  /\ console' = Append(console, "Uploading to Airtable...")
  /\ pc' = "list"
  /\ UNCHANGED <<conf_vars, scrape_vars, file_vars, requests, list_vars,
                 batch_vars, call_vars>>

\* main: the credentials are missing.
SkipNotice ==
  /\ pc = "exported"
  /\ ~ UploadEnabled(args, env)
  /\ ~ args.skip_airtable
  /\ console' = console \o <<"Skipping Airtable upload (credentials not provided)",
                             "Done!">>
  /\ pc' = "done"
  /\ UNCHANGED <<conf_vars, scrape_vars, file_vars, requests, list_vars,
                 batch_vars, call_vars>>

\* main: --skip-airtable.
SkipUpload ==
  /\ pc = "exported"
  /\ args.skip_airtable
  /\ console' = Append(console, "Done!")
  /\ pc' = "done"
  /\ UNCHANGED <<conf_vars, scrape_vars, file_vars, requests, list_vars,
                 batch_vars, call_vars>>

\* The listing requests made so far.
PagesRead == Len(SelectSeq(requests, LAMBDA r : r.method = "GET"))

\* ListPage, had the loop ignored the cursor: one page is read.
ListPageOnce(page, next) ==
  /\ pc = "list"
  /\ PagesRead < MaxPages
  /\ Truthy(next) => PagesRead + 1 < MaxPages
  /\ requests' = Append(requests, [method |-> "GET", offset |-> offset,
                                   ok |-> TRUE, records |-> page,
                                   next |-> next])
  /\ case_ids' = case_ids \cup PageKeys(page)
  /\ offset' = next
  /\ pc' = "listed"
  /\ UNCHANGED <<conf_vars, scrape_vars, console, file_vars, batch_vars,
                 call_vars>>

\* get_existing_case_ids, one turn of the loop: the store answers with the
\* records page and the cursor next.
ListPage(page, next) ==
  /\ pc = "list"
  /\ PagesRead < MaxPages
  /\ Truthy(next) => PagesRead + 1 < MaxPages
  /\ requests' = Append(requests, [method |-> "GET", offset |-> offset,
                                   ok |-> TRUE, records |-> page,
                                   next |-> next])
  /\ case_ids' = case_ids \cup PageKeys(page)
  /\ offset' = next
  /\ pc' = IF Truthy(next) THEN "list" ELSE "listed"
  /\ UNCHANGED <<conf_vars, scrape_vars, console, file_vars, batch_vars,
                 call_vars>>

\* get_existing_case_ids: the request fails; nothing catches the exception.
ListFailed ==
  /\ pc = "list"
  /\ PagesRead < MaxPages
  /\ requests' = Append(requests, [method |-> "GET", offset |-> offset,
                                   ok |-> FALSE, records |-> <<>>,
                                   next |-> None])
  /\ pc' = "aborted"
  /\ UNCHANGED <<conf_vars, scrape_vars, console, file_vars, list_vars,
                 batch_vars, call_vars>>

\* main: new_cases from the keys read, and the call of batch_create_records.
Filter ==
  /\ pc = "listed"
  /\ new_cases' = NewCases(all_cases, case_ids)
  /\ IF new_cases' # <<>>
     THEN /\ console' = Append(console, "Found new cases to upload")
          /\ pc' = "batch"
     ELSE /\ console' = console \o <<"No new cases to upload", "Done!">>
          /\ pc' = "done"
  /\ batch_size' = DefaultBatchSize
  /\ batch_i' = 0
  /\ results' = <<>>
  /\ UNCHANGED <<conf_vars, scrape_vars, file_vars, requests, list_vars,
                 call_vars>>

\* batch_create_records, one turn of the loop: the request succeeds and
\* the store answers with the keys of the records created.
BatchUploaded ==
  /\ pc = "batch"
  /\ batch_i < Len(new_cases)
  /\ LET records == BatchRecords(new_cases, batch_i, batch_size)
         answer == [k \in 1..Len(records) |-> records[k].fields["Case ID"]]
     IN /\ requests' = Append(requests, [method |-> "POST", records |-> records,
                                         ok |-> TRUE])
        /\ results' = Append(results, answer)
  /\ console' = Append(console, "Uploaded batch")
  /\ batch_i' = batch_i + batch_size
  /\ UNCHANGED <<pc, conf_vars, scrape_vars, file_vars, list_vars, new_cases,
                 batch_size, call_vars>>

\* batch_create_records, one turn of the loop: the request fails.
BatchFailed ==
  /\ pc = "batch"
  /\ batch_i < Len(new_cases)
  /\ requests' = Append(requests,
                        [method |-> "POST",
                         records |-> BatchRecords(new_cases, batch_i, batch_size),
                         ok |-> FALSE])
  /\ console' = Append(console, "Error uploading batch")
  /\ batch_i' = batch_i + batch_size
  /\ UNCHANGED <<pc, conf_vars, scrape_vars, file_vars, list_vars, new_cases,
                 batch_size, results, call_vars>>

\* batch_create_records returns; main ends.
BatchReturn ==
  /\ pc = "batch"
  /\ batch_i >= Len(new_cases)
  /\ console' = IF caller = "main" THEN Append(console, "Done!") ELSE console
  /\ pc' = "done"
  /\ UNCHANGED <<conf_vars, scrape_vars, file_vars, requests, list_vars,
                 batch_vars, call_vars>>

Next ==
  \/ \E d \in ReadmeChoices(repo_i) : ScrapeFetched(d)
  \/ ScrapeFailed
  \/ Export
  \/ StartUpload
  \/ SkipNotice
  \/ SkipUpload
  \/ \E page \in PageChoices, next \in Cursors \cup NoCursors : ListPage(page, next)
  \/ ListFailed
  \/ Filter
  \/ BatchUploaded
  \/ BatchFailed
  \/ BatchReturn

Spec == Init /\ [][Next]_vars

------------------------------------------------------------------------------
(* batch_create_records called on its own, with any batch size.            *)

\* The longest list of cases and the largest batch size of such a call.
MaxCases == 5
MaxBatchSize == 3

\* ## Case k: A
SampleSection(k) ==
  <<"#", "#", " ", "C", "a", "s", "e", " ">> \o StrOfInt(k) \o <<":", " ", "A">>

\* A list of n records, the k-th with case number k.
SampleCases(n) ==
  [k \in 1..n |->
     _parse_case_section(SampleSection(k), REPOS[1], RepoUrl(REPOS[1]), 0)[1]]

InitBatch ==
  /\ pc = "batch"
  /\ caller = "none"
  /\ args = [skip_airtable |-> FALSE, airtable_key |-> Some(<<"k">>),
             airtable_base |-> Some(<<"k">>)]
  /\ env = [AIRTABLE_API_KEY |-> None, AIRTABLE_BASE_ID |-> None]
  /\ repo_i = 1
  /\ all_cases = <<>>
  /\ served = <<>>
  /\ clock = 0
  /\ console = <<>>
  /\ json_file = None
  /\ csv_file = None
  /\ requests = <<>>
  /\ offset = None
  /\ case_ids = {}
  /\ \E n \in 0..MaxCases : new_cases = SampleCases(n)
  /\ batch_size \in 1..MaxBatchSize
  /\ batch_i = 0
  /\ results = <<>>
  /\ arg = None
  /\ ret = None

NextBatch == BatchUploaded \/ BatchFailed \/ BatchReturn

SpecBatch == InitBatch /\ [][NextBatch]_vars

------------------------------------------------------------------------------
(* The claims about the run of main().                                     *)

Gets == SelectSeq(requests, LAMBDA r : r.method = "GET")
Posts == SelectSeq(requests, LAMBDA r : r.method = "POST")

RECURSIVE Flatten(_)
Flatten(ss) == IF ss = <<>> THEN <<>> ELSE Head(ss) \o Flatten(Tail(ss))

\* owner/repo of source i
SourceName(i) == REPOS[i].owner \o <<"/">> \o REPOS[i].repo

\* The records of the document that source i was served, had it been the
\* only source.
Contribution(i) ==
  IF served[i] = 0 THEN <<>>
  ELSE parse_readme_cases(Readmes[i][served[i]], REPOS[i], i - 1)

\* C1: in scrape_all_repos a source whose fetch fails contributes no record
\* and every other source is still fetched and parsed: the corpus is the
\* concatenation of the records of the sources that did not fail, and the
\* loop visits every configured source.
C1_FailedSourcesContributeNothing ==
  /\ pc # "scrape" => Len(served) = Len(REPOS)
  /\ \A i \in 1..Len(served) :
       served[i] = 0 =>
         \A k \in 1..Len(all_cases) : all_cases[k].source_repo # SourceName(i)
  /\ pc = "exported" =>
       all_cases = Flatten([i \in 1..Len(served) |-> Contribution(i)])

\* A failed source is followed by a source that contributes records.
C1_Witness ==
  /\ pc = "exported"
  /\ \E i, j \in 1..Len(served) :
       /\ i < j /\ served[i] = 0 /\ served[j] # 0
       /\ \E k \in 1..Len(all_cases) : all_cases[k].source_repo = SourceName(j)

\* C2: whatever fails among the fetches, the pages of the listing and the
\* upload batches, a run of main reaches its final "Done" and never aborts.
C2_RunNeverAborts == pc # "aborted"

\* The keys of the records of the pages read so far.
KeysListed ==
  {id \in UNION {{g.records[k] : k \in 1..Len(g.records)} :
                   g \in {Gets[j] : j \in 1..Len(Gets)}} :
     id # None /\ id[1] # <<>>}

\* The case_ids of the records submitted so far, in order.
Submitted ==
  Flatten([j \in 1..Len(Posts) |->
             [k \in 1..Len(Posts[j].records) |->
                Posts[j].records[k].fields["Case ID"]]])

\* The case_ids of the scraped records whose key no page read holds.
Unlisted ==
  LET idx == {k \in 1..Len(all_cases) : Some(all_cases[k].case_id) \notin KeysListed}
      Nth(n) == CHOOSE k \in idx : Cardinality({j \in idx : j < k}) = n - 1
  IN [n \in 1..Cardinality(idx) |-> all_cases[Nth(n)].case_id]

\* C3: with the upload enabled the listing is read page by page, each
\* request carrying the cursor of the page before, until a page comes
\* without a cursor, and only then is any record submitted; the records
\* submitted are exactly the scraped records whose case_id is on no page.
C3_DrainThenSubmitUnlisted ==
  /\ \A k \in 1..Len(requests) :
       requests[k].method = "POST" =>
         /\ \A j \in 1..Len(requests) : requests[j].method = "GET" => j < k
         /\ Gets # <<>>
         /\ Gets[Len(Gets)].ok
         /\ Gets[Len(Gets)].next \in {None, Some(<<>>)}
  /\ \A j \in 1..Len(Gets) :
       /\ Gets[j].offset = IF j = 1 THEN None ELSE Gets[j - 1].next
       /\ j < Len(Gets) => Gets[j].ok /\ Gets[j].next \notin {None, Some(<<>>)}
  /\ (pc = "done" /\ Gets # <<>>) => Submitted = Unlisted
  /\ pc = "batch" => \A k \in 1..Len(Submitted) : Submitted[k] = Unlisted[k]

\* Two pages were read, a scraped record was on one of them and another
\* record was submitted.
C3_Witness ==
  /\ pc = "done"
  /\ Len(Gets) = 2
  /\ Submitted # <<>>
  /\ \E k \in 1..Len(all_cases) : Some(all_cases[k].case_id) \in KeysListed

\* The upload is off: the flag is set, or the key or the base is missing
\* from the command line and from the environment.
Missing(a, e) == (IF a \in {None, Some(<<>>)} THEN e ELSE a) \in {None, Some(<<>>)}

CredentialsMissing ==
  \/ Missing(args.airtable_key, env.AIRTABLE_API_KEY)
  \/ Missing(args.airtable_base, env.AIRTABLE_BASE_ID)

NoUpload == args.skip_airtable \/ CredentialsMissing

Notice == "Skipping Airtable upload (credentials not provided)"

Printed(line) == \E k \in 1..Len(console) : console[k] = line

\* C5 (as amended): when the flag --skip-airtable is set, or the key or
\* the base is missing, main makes no request to the store and completes;
\* the JSON export holds the full scraped list, the CSV export holds it
\* when it is not empty and is not written when it is empty; the notice is
\* printed when the credentials are missing and the flag is not set.
C5_NoUploadStillExports ==
  /\ NoUpload => requests = <<>> /\ pc # "aborted"
  /\ (NoUpload /\ pc \in {"exported", "done"}) =>
       /\ json_file = Some(all_cases)
       /\ all_cases = <<>> => csv_file = None
       /\ all_cases # <<>> =>
            /\ csv_file # None
            /\ Len(csv_file[1]) = Len(all_cases)
            /\ \A k \in 1..Len(all_cases) :
                 \A f \in DOMAIN all_cases[k] \ {"tags"} :
                   csv_file[1][k][f] = all_cases[k][f]
  /\ (NoUpload /\ pc = "done") =>
       /\ console[Len(console)] = "Done!"
       /\ (CredentialsMissing /\ ~ args.skip_airtable) => Printed(Notice)
  /\ (NoUpload /\ pc = "exported") => ENABLED (SkipNotice \/ SkipUpload)

\* The credentials are missing, the flag is not set, records were scraped.
C5_Witness ==
  /\ pc = "done"
  /\ CredentialsMissing
  /\ ~ args.skip_airtable
  /\ all_cases # <<>>
  /\ Printed(Notice)

\* C5 as stated: both exports are written whenever the upload is off.
C5_BothExportsWritten ==
  (NoUpload /\ pc = "done") => json_file # None /\ csv_file # None

\* The section of a document that starts at the cut p.
SectionAt(content, p) ==
  LET later == {c \in Cuts(content) : c > p}
  IN SubSeq(content, p, IF later = {} THEN Len(content) ELSE Min(later) - 1)

\* The record of the section at (source, position) x.
RecordAt(x) ==
  _parse_case_section(SectionAt(Readmes[x[1]][served[x[1]]], x[2]), REPOS[x[1]],
                      RepoUrl(REPOS[x[1]]), x[1] - 1)

\* The headers that yield a record: (source, position in the document).
Yielding ==
  {x \in UNION {{<<i, p>> : p \in Cuts(Readmes[i][served[i]])} :
                  i \in {j \in 1..Len(served) : served[j] # 0}} :
     RecordAt(x) # None}

Before(x, y) == x[1] < y[1] \/ (x[1] = y[1] /\ x[2] < y[2])

\* C6: the corpus of scrape_all_repos is ordered by source, in declaration
\* order, and within a source by the position of the header in the
\* document; a section whose header does not parse is left out and the
\* records of the other sections keep their places.
C6_CorpusInDocumentOrder ==
  pc = "exported" =>
    LET Y == Yielding
    IN /\ Len(all_cases) = Cardinality(Y)
       /\ \A x \in Y :
            all_cases[Cardinality({y \in Y : Before(y, x)}) + 1] = RecordAt(x)[1]

\* One document gave a record with a larger case number before one with a
\* smaller, a section between them giving none.
C6_Witness ==
  /\ pc = "exported"
  /\ \E k \in 1..(Len(all_cases) - 1) :
       /\ all_cases[k].source_repo = all_cases[k + 1].source_repo
       /\ all_cases[k].case_number > all_cases[k + 1].case_number
  /\ \E i \in 1..Len(served) :
       /\ served[i] # 0
       /\ \E p \in Cuts(Readmes[i][served[i]]) : <<i, p>> \notin Yielding

\* C7: case_id is decided by (source identifier, case number, title): two
\* records with the same three have the same case_id, and two records that
\* differ in source_repo, in case number or in title have different ones.
C7_CaseIdSeparatesTriples ==
  \A a, b \in 1..Len(all_cases) :
    (all_cases[a].case_id = all_cases[b].case_id) <=>
      /\ all_cases[a].source_repo = all_cases[b].source_repo
      /\ all_cases[a].case_number = all_cases[b].case_number
      /\ all_cases[a].title = all_cases[b].title

------------------------------------------------------------------------------
(* The claims about batch_create_records.                                  *)

\* C4: batch_create_records over n records with batch size b >= 1 attempts
\* ceil(n/b) batches, the j-th holding the records (j-1)b+1 .. min(jb, n)
\* in order; a failed batch does not stop the later ones, and the result
\* holds one answer per successful batch, in order.
C4_BatchesCoverTheList ==
  LET n == Len(new_cases)
      b == batch_size
      ok == {j \in 1..Len(Posts) : Posts[j].ok}
  IN /\ \A j \in 1..Len(Posts) :
          /\ Len(Posts[j].records) = (IF j * b < n THEN j * b ELSE n) - (j - 1) * b
          /\ Len(Posts[j].records) \in 1..b
          /\ \A k \in 1..Len(Posts[j].records) :
               Posts[j].records[k] = Fields(new_cases[(j - 1) * b + k])
     /\ pc = "done" => Len(Posts) = (n + b - 1) \div b
     /\ Len(results) = Cardinality(ok)
     /\ \A j \in ok :
          results[Cardinality({i \in ok : i <= j})] =
            [k \in 1..Len(Posts[j].records) |-> Posts[j].records[k].fields["Case ID"]]

\* Three batches or more, the last one short, a failed one before a
\* successful one.
C4_Witness ==
  /\ pc = "done"
  /\ Len(Posts) >= 3
  /\ Len(Posts[Len(Posts)].records) < batch_size
  /\ \E i, j \in 1..Len(Posts) : i < j /\ ~ Posts[i].ok /\ Posts[j].ok

------------------------------------------------------------------------------
(* The functions called on their own.                                      *)

\* The state of a run of main that a call of a function leaves alone.
NoRun ==
  /\ caller = "none"
  /\ args = [skip_airtable |-> TRUE, airtable_key |-> None, airtable_base |-> None]
  /\ env = [AIRTABLE_API_KEY |-> None, AIRTABLE_BASE_ID |-> None]
  /\ repo_i = 1
  /\ all_cases = <<>>
  /\ served = <<>>
  /\ clock = 0
  /\ console = <<>>
  /\ json_file = None
  /\ csv_file = None
  /\ requests = <<>>
  /\ offset = None
  /\ case_ids = {}
  /\ new_cases = <<>>
  /\ batch_size = DefaultBatchSize
  /\ batch_i = 0
  /\ results = <<>>

run_vars ==
  <<conf_vars, scrape_vars, console, file_vars, requests, list_vars, batch_vars>>

\* The titles and the prompts given to _categorize_case.
CategorizeTitles ==
  { <<"P", "o", "r", "t", "r", "a", "i", "t", " ", "a", "r", "t">>,
    <<"a", "r", "t", " ", "o", "f", " ", "t", "h", "e", " ", "p", "o", "r", "t", "r", "a", "i", "t">>,
    <<"L", "o", "g", "o", " ", "s", "t", "y", "l", "e">>,
    <<"t", "o", "y", " ", "f", "i", "g", "u", "r", "e">>,
    <<"p", "a", "r", "t", "y">>,
    <<"c", "o", "n", "t", "e", "x", "t">>,
    <<"F", "o", "x">>,
    <<"F", "O", "O", "D">>,
    <<"u4EA7", "u54C1">>,
    <<"u573A", "u666F", " ", "1">>,
    <<"k", "e", "y", "c", "a", "p", " ", "s", "c", "e", "n", "e">>,
    <<"3", "D">> }

CategorizePrompts ==
  { <<>>,
    <<"a", " ", "c", "h", "a", "r", "a", "c", "t", "e", "r">>,
    <<"T", "R", "A", "N", "S", "F", "O", "R", "M", " ", "i", "t">>,
    <<"m", "i", "n", "i", " ", "o", "b", "j", "e", "c", "t">>,
    <<"u98CE", "u683C">> }

\* The tags given with a title and a prompt: none, those of _extract_tags,
\* and the name of a category.
CategorizeTags(title, prompt) ==
  {<<>>, _extract_tags(title, prompt), <<categories[Len(categories)].label>>}

InitCategorize ==
  /\ pc = "call"
  /\ \E title \in CategorizeTitles, prompt \in CategorizePrompts :
       \E tags \in CategorizeTags(title, prompt) :
         arg = [title |-> title, prompt |-> prompt, tags |-> tags]
  /\ ret = None
  /\ NoRun

CallCategorize ==
  /\ pc = "call"
  /\ ret' = Some(_categorize_case(arg.title, arg.prompt, arg.tags))
  /\ pc' = "returned"
  /\ UNCHANGED <<arg, run_vars>>

SpecCategorize == InitCategorize /\ [][CallCategorize]_vars

\* The entry i of the category table has a keyword in the lower-cased text
\* "title prompt".
EntryMatches(i, title, prompt) ==
  \E k \in 1..Len(categories[i].keywords) :
    LET text == Lower(title \o <<" ">> \o prompt)
        kw == categories[i].keywords[k]
    IN \E at \in 1..(Len(text) - Len(kw) + 1) :
         SubSeq(text, at, at + Len(kw) - 1) = kw

\* C8: _categorize_case returns one label: that of the first entry of the
\* category table, in declaration order, with a keyword in the lower-cased
\* text "title prompt", and "General" when no entry has one; the tags
\* have no part in it, and the label is one of the ten choices of the
\* Category field of the store schema.
C8_FirstMatchingCategory ==
  pc = "returned" =>
    /\ ret[1] \in CategoryChoices
    /\ \A i \in 1..Len(categories) :
         (/\ EntryMatches(i, arg.title, arg.prompt)
          /\ \A j \in 1..(i - 1) : ~ EntryMatches(j, arg.title, arg.prompt))
           => ret[1] = categories[i].label
    /\ (\A i \in 1..Len(categories) : ~ EntryMatches(i, arg.title, arg.prompt))
         => ret[1] = General

\* Two entries match, the tags name a third, and the first entry wins.
C8_Witness ==
  /\ pc = "returned"
  /\ arg.tags # <<>>
  /\ \E i, j \in 1..Len(categories) :
       /\ i < j
       /\ EntryMatches(i, arg.title, arg.prompt)
       /\ EntryMatches(j, arg.title, arg.prompt)
       /\ ret[1] = categories[i].label
       /\ arg.tags # <<categories[i].label>>

------------------------------------------------------------------------------
(* _parse_case_section called on one segment.                              *)

MaxImages == 3

\* The parts of a header line: the case numbers, the titles and the
\* trailing parentheticals, in plain and in markdown-link form.
CaseNumbers ==
  { <<"1">>,
    <<"1", "2">>,
    <<"0", "7">> }

HeaderTitles ==
  { <<"R", "e", "d", " ", "F", "o", "x">>,
    <<"A">> }

Alice == <<"a", "l", "i", "c", "e">>

ByForms ==
  { <<>>,
    <<" ", "(", "b", "y", " ", "@", "a", "l", "i", "c", "e", ")">>,
    <<" ", "(", "b", "y", " ", "a", "l", "i", "c", "e", ")">>,
    <<"(", "b", "y", " ", "a", "l", "i", "c", "e", ")">>,
    <<" ", "(", "b", "y", " ", "[", "a", "l", "i", "c", "e", "]", ")">>,
    <<" ", "(", "b", "y", " ", "[", "a", "l", "i", "c", "e", ")">>,
    <<" ", "(", "b", "y", " ", "[", "a", "l", "i", "c", "e", "]", "(", "h", "t", "t", "p", "s", ":", "/", "/", "x", ".", "c", "o", "m", "/", "a", "l", "i", "c", "e", ")", ")">>,
    <<" ", "(", "b", "y", " ", "[", "@", "a", "l", "i", "c", "e", "]", "(", "h", "t", "t", "p", "s", ":", "/", "/", "x", ".", "c", "o", "m", "/", "a", "l", "i", "c", "e", ")", ")">> }

\* The lines of a segment that hold no image: none, a link, and an image
\* mark with an empty address.
Fillers ==
  { <<>>,
    <<"[", "l", "]", "(", "v", ")">>,
    <<"!", "[", "a", "]", "(", ")">> }

\* The alt texts of the images of a segment.
Alts ==
  { <<>>,
    <<"x">>,
    <<"p", "i", "c", " ", "1">>,
    <<"G", "e", "m", "i", "n", "i", " ", "o", "u", "t">>,
    <<"G", "P", "T">>,
    <<"4", "O">>,
    <<"G", "e", "m", "i", "n", "i", " ", "v", "s", " ", "G", "P", "T">> }

Hashes(h) == [k \in 1..h |-> "#"]

HeaderLine(a) ==
  Hashes(a.marks) \o <<" ">> \o a.label \o <<" ">> \o a.number
    \o <<a.sep, " ">> \o a.title \o a.by

ImageUrl(k) == <<"u", DigitChar(k)>>

ImageLine(alt, k) ==
  <<NL, "!", "[">> \o alt \o <<"]", "(">> \o ImageUrl(k) \o <<")">>

RECURSIVE ImageLines(_, _)
ImageLines(alts, k) ==
  IF k > Len(alts) THEN <<>>
  ELSE ImageLine(alts[k], k) \o ImageLines(alts, k + 1)

SectionText(a) ==
  HeaderLine(a) \o (IF a.filler = <<>> THEN <<>> ELSE <<NL>> \o a.filler)
    \o ImageLines(a.alts, 1)

AltLists == UNION {[1..n -> Alts] : n \in 0..MaxImages}

\* The segments: every header line with no body, and one header line with
\* every body.
HeaderInputs ==
  [marks : HeadMarks, label : LABELS, number : CaseNumbers, sep : Separators,
   title : HeaderTitles, by : ByForms, filler : {<<>>}, alts : {<<>>}]

ImageInputs ==
  [marks : {2}, label : {<<"C", "a", "s", "e">>}, number : {<<"1">>},
   sep : {":"}, title : {<<"A">>}, by : {<<>>}, filler : Fillers,
   alts : AltLists]

\* The bodies that hold a prompt: after the Chinese marker, after the
\* English one, after both, after a marker with nothing behind it, after a
\* marker that a colon or other capitals keep from matching.
PromptBodies ==
  { <<"u63D0", "u793A", "u8BCD", NL, NL, "u753B", "u4E00", "u53EA", "u732B">>,
    <<"P", "r", "o", "m", "p", "t", NL, NL, "d", "r", "a", "w", " ", "a", " ", "c", "a", "t">>,
    <<"u63D0", "u793A", "u8BCD", "uFF1A", NL, "u753B", NL, NL, "P", "r", "o", "m", "p", "t", NL, NL, "d", "r", "a", "w">>,
    <<"P", "r", "o", "m", "p", "t", NL, NL, "d", "r", "a", "w", NL, NL, "u6CE8", "u610F", " ", "u63D0", "u793A", "u8BCD", NL, NL>>,
    <<"P", "r", "o", "m", "p", "t", ":", NL, "d", "r", "a", "w">>,
    <<"p", "r", "o", "m", "p", "t", " ", NL, "d", "r", "a", "w", NL, NL, "N", "o", "t", "e", ":", " ", "x">>,
    <<"P", "r", "o", "m", "p", "t", NL, NL>>,
    <<"u63D0", "u793A", "u8BCD", NL, NL, "u753B", NL, NL, "u6CE8", "u610F", NL, NL, "p", "r", "o", "m", "p", "t", NL, "d", "r", "a", "w", NL, NL, "R", "e", "f", "e", "r", "e", "n", "c", "e">>,
    <<"P", "R", "O", "M", "P", "T", NL, NL, "d", "r", "a", "w">>,
    <<"u63D0", "u793A", "u8BCD", NL, "u753B", " ", "u9700", "u4E0A", "u4F20", " ", "x">> }

PromptInputs ==
  [marks : {2}, label : {<<"C", "a", "s", "e">>}, number : {<<"1">>},
   sep : {":"}, title : {<<"A">>}, by : {<<>>}, filler : PromptBodies,
   alts : {<<>>}]

InitSection ==
  /\ pc = "call"
  /\ arg \in HeaderInputs \cup ImageInputs \cup PromptInputs
  /\ ret = None
  /\ NoRun

CallParseSection ==
  /\ pc = "call"
  /\ ret' = _parse_case_section(SectionText(arg), REPOS[1], RepoUrl(REPOS[1]), clock)
  /\ pc' = "returned"
  /\ UNCHANGED <<arg, run_vars>>

SpecSection == InitSection /\ [][CallParseSection]_vars

RedFoxHeader ==
  [marks |-> 2, label |-> <<"C", "a", "s", "e">>, number |-> <<"1">>,
   sep |-> ":", title |-> <<"R", "e", "d", " ", "F", "o", "x">>,
   by |-> <<" ", "(", "b", "y", " ", "@">> \o Alice \o <<")">>,
   filler |-> <<>>, alts |-> <<>>]

\* C9: for every header line of the recognized form, with or without a
\* trailing parenthetical "(by ...)" in plain or markdown-link form,
\* _parse_case_section yields a record whose case_number is the integer of
\* the header and whose title is the title of the header, with nothing of
\* the parenthetical in it; "## Case 1: Red Fox (by @alice)" gives case
\* number 1, title "Red Fox" and author "alice".
C9_HeaderYieldsNumberAndTitle ==
  pc = "returned" =>
    /\ ret # None
    /\ ret[1].case_number = IntOfDigits(arg.number)
    /\ ret[1].title = arg.title
    /\ arg = RedFoxHeader =>
         /\ ret[1].case_number = 1
         /\ ret[1].author = Some(Alice)

\* The alt text holds none of the words that label an image.
Unlabeled(alt) ==
  \A kw \in {KwGemini, KwGpt, Kw4o} :
    \A at \in 1..(Len(alt) - Len(kw) + 1) :
      Lower(SubSeq(alt, at, at + Len(kw) - 1)) # kw

\* C10: a segment with no markdown image has neither image address; a
\* segment whose images are two or more, all of them unlabeled, has the
\* address of the first as gemini_image_url and no gpt4o_image_url.
C10_FirstUnlabeledImageWins ==
  pc = "returned" =>
    /\ ret # None
    /\ arg.alts = <<>> =>
         /\ ret[1].gemini_image_url = None
         /\ ret[1].gpt4o_image_url = None
    /\ (Len(arg.alts) >= 2 /\ \A k \in 1..Len(arg.alts) : Unlabeled(arg.alts[k])) =>
         /\ ret[1].gemini_image_url = Some(ImageUrl(1))
         /\ ret[1].gpt4o_image_url = None

\* Three unlabeled images with different alt texts after a line that holds
\* an image mark without an address: the first address is kept.
C10_Witness ==
  /\ pc = "returned"
  /\ Len(arg.alts) = MaxImages
  /\ \A k \in 1..Len(arg.alts) : Unlabeled(arg.alts[k])
  /\ arg.alts[1] # arg.alts[2]
  /\ arg.filler # <<>> /\ arg.filler[1] = "!"
  /\ ret[1].gemini_image_url = Some(ImageUrl(1))
  /\ ImageUrl(1) # ImageUrl(Len(arg.alts))

------------------------------------------------------------------------------
(* parse_readme_cases called on one document.                              *)

\* The text of a document before its body: nothing, prose, lines that hold
\* an image, a prompt and a reference note, lines that look like a header
\* and are none, and the starts of a line that the body completes.
Leads ==
 { <<>>,
    <<"i", "n", "t", "r", "o", NL>>,
    <<"!", "[", "g", "e", "m", "i", "n", "i", "]", "(", "Z", ")", NL, "u63D0", "u793A", "u8BCD", NL, NL, "Z", NL, NL, "P", "r", "o", "m", "p", "t", NL, NL, "Z", NL>>,
    <<"#", " ", "C", "a", "s", "e", " ", "1", ":", " ", "Z", NL>>,
    <<"#", "#", " ", "C", "a", "s", "e", ":", " ", "Z", NL>>,
    <<"*", "*", "C", "a", "s", "e", " ", "1", ":", " ", "Z", "*", "*", NL>>,
    <<"s", "e", "e", " ">>,
    <<"#", "#">> }

\* The body of a document: from its first "## Case" on.
Bodies ==
  { <<>>,
    <<"#", "#", " ", "C", "a", "s", "e", " ", "1", ":", " ", "A", NL>>,
    <<"#", "#", " ", "C", "a", "s", "e", " ", "1", ":", " ", "A", NL, "!", "[", "x", "]", "(", "u", ")", NL, "#", "#", "#", " ", "C", "a", "s", "e", " ", "2", ":", " ", "B", " ", "(", "b", "y", " ", "@", "b", "o", "b", ")", NL>>,
    <<"#", "#", " ", "C", "a", "s", "e", " ", "7", NL, "#", "#", " ", "C", "a", "s", "e", " ", "1", ":", " ", "A", NL>>,
    <<"#", "#", "C", "a", "s", "e", "1", ":", "A", NL, "P", "r", "o", "m", "p", "t", NL, NL, "d", "o", " ", "i", "t", NL>>,
    <<"#", "#", "#", " ", "u6848", "u4F8B", " ", "3", "uFF1A", "A", NL>>,
    <<"#", "#", " ", "E", "x", "a", "m", "p", "l", "e", " ", "1", ":", " ", "A", " ", "#", "#", " ", "N", "o", ".", " ", "2", ":", " ", "B", NL>> }

Document(a) == a.lead \o a.body

InitReadme ==
  /\ pc = "call"
  /\ arg \in [lead : Leads, body : Bodies]
  /\ ret = None
  /\ NoRun

\* parse_readme_cases: the records returned and, in order, the segments
\* that the loop passed to _parse_case_section.
CallParseReadme ==
  /\ pc = "call"
  /\ ret' = [cases  |-> parse_readme_cases(Document(arg), REPOS[1], clock),
             passed |-> Sections(Document(arg))]
  /\ pc' = "returned"
  /\ UNCHANGED <<arg, run_vars>>

SpecReadme == InitReadme /\ [][CallParseReadme]_vars

\* The positions of a document at which a case header is recognized:
\* two or three "#", a case label and a digit, white space between them.
Recognized(doc) ==
  {p \in 1..Len(doc) :
     \E h \in {2, 3}, l \in LABELS :
       /\ \A k \in 0..(h - 1) : p + k <= Len(doc) /\ doc[p + k] = "#"
       /\ \E a \in (p + h)..Len(doc), b \in (p + h)..Len(doc) :
            /\ \A k \in (p + h)..(a - 1) : doc[k] \in WS
            /\ SubSeq(doc, a, a + Len(l) - 1) = l
            /\ b >= a + Len(l)
            /\ \A k \in (a + Len(l))..(b - 1) : doc[k] \in WS
            /\ doc[b] \in Digits}

\* C11: parse_readme_cases on a document with no recognized case header
\* returns no records; for every document the text before the first
\* recognized header is in no segment passed to _parse_case_section, and
\* the records are those of the document with that text taken away.
C11_LeadingTextDiscarded ==
  pc = "returned" =>
    LET doc == Document(arg)
        heads == Recognized(doc)
    IN IF heads = {}
       THEN ret.cases = <<>> /\ ret.passed = <<>>
       ELSE LET first == CHOOSE p \in heads : \A x \in heads : p <= x
                rest == SubSeq(doc, first, Len(doc))
            IN /\ Flatten(ret.passed) = rest
               /\ ret.cases = parse_readme_cases(rest, REPOS[1], clock)

\* A document whose leading text holds an image and a prompt, and whose
\* body yields a record with neither.
C11_Witness ==
  /\ pc = "returned"
  /\ \E k \in 1..Len(arg.lead) : arg.lead[k] = "!"
  /\ Len(ret.cases) >= 1
  /\ ret.cases[1].gemini_image_url = None
  /\ ret.cases[1].prompt = <<>>
  /\ Len(Flatten(ret.passed)) = Len(arg.body)

\* The position in the document of the k-th segment passed to
\* _parse_case_section: the segments are consecutive and end the document.
PassedAt(k) ==
  Len(Document(arg)) - Len(Flatten(SubSeq(ret.passed, k, Len(ret.passed)))) + 1

AtLineStart(doc, p) == p = 1 \/ doc[p - 1] = NL

\* The run of "#" of the document that holds position p: its first and
\* its last position.
HashRun(doc, p) ==
  [first |-> CHOOSE a \in 1..p :
               /\ \A k \in a..p : doc[k] = "#"
               /\ a = 1 \/ doc[a - 1] # "#",
   last  |-> CHOOSE e \in p..Len(doc) :
               /\ \A k \in p..e : doc[k] = "#"
               /\ e = Len(doc) \/ doc[e + 1] # "#"]

\* C13: a record is produced only from a header that starts at the
\* beginning of a line with exactly two or three "#": a segment that
\* yields a record starts in a run of "#" that starts a line of the
\* document and is two or three long.
C13_RecordsOnlyFromLineStartHeaders ==
  pc = "returned" =>
    \A k \in 1..Len(ret.passed) :
      _parse_case_section(ret.passed[k], REPOS[1], RepoUrl(REPOS[1]), clock) # None
        => LET run == HashRun(Document(arg), PassedAt(k))
           IN /\ AtLineStart(Document(arg), run.first)
              /\ run.last - run.first + 1 \in {2, 3}

\* The authors of the plain parentheticals "(by X)".
PlainAuthors ==
  { <<"@", "a", "l", "i", "c", "e">>,
    <<"a", "l", "i", "c", "e">>,
    <<"[", "a", "l", "i", "c", "e", "]">>,
    <<"[", "a", "l", "i", "c", "e">> }

AliceUrl == <<"h", "t", "t", "p", "s", ":", "/", "/", "x", ".", "c", "o", "m", "/", "a", "l", "i", "c", "e">>

PlainBy(x) == <<" ", "(", "b", "y", " ">> \o x \o <<")">>

LinkBy(label, url) ==
  <<" ", "(", "b", "y", " ", "[">> \o label \o <<"]", "(">> \o url \o <<")", ")">>

\* X with a leading "@" or "[" and a trailing "]" or ")" removed.
Cleaned(x) ==
  LET from == IF x # <<>> /\ x[1] \in {"@", "["} THEN 2 ELSE 1
      to == IF x # <<>> /\ x[Len(x)] \in {"]", ")"} THEN Len(x) - 1 ELSE Len(x)
  IN SubSeq(x, from, to)

\* C14: a header whose trailing parenthetical is a markdown link
\* "[label](url)" gives author the label, without a leading "@", and
\* author_url the url; a header with a plain "(by X)" and no markdown link
\* gives author X without a leading "@" or "[" and a trailing "]" or ")",
\* and no author_url.
C14_AuthorFromLinkOrPlain ==
  (pc = "returned" /\ ret # None) =>
    /\ \A at \in {<<>>, <<"@">>} :
         arg.by = LinkBy(at \o Alice, AliceUrl) =>
           /\ ret[1].author = Some(Alice)
           /\ ret[1].author_url = Some(AliceUrl)
    /\ \A x \in PlainAuthors :
         arg.by = PlainBy(x) =>
           /\ ret[1].author = Some(Cleaned(x))
           /\ ret[1].author_url = None

\* The text found after a prompt marker of the segment, stripped: None
\* when the marker pattern matches nowhere.
PromptFound(section, marks, stops) ==
  LET found == PromptSearch(section, marks, stops)
  IN IF found = None THEN None ELSE Some(Strip(found[1]))

\* C12: in every record prompt is a text: the Chinese prompt text when it
\* is found and not empty, otherwise the English prompt text when it is
\* found, and then prompt = prompt_en, otherwise the empty text; prompt_en
\* is None exactly when the English marker pattern matches nowhere.
C12_PromptFallsBackToEnglish ==
  (pc = "returned" /\ ret # None) =>
    LET zh == PromptFound(SectionText(arg), ZhPromptMarks, ZhPromptStops)
        en == PromptFound(SectionText(arg), EnPromptMarks, EnPromptStops)
    IN /\ ret[1].prompt \in Seq({ret[1].prompt[k] : k \in 1..Len(ret[1].prompt)})
       /\ (zh # None /\ zh[1] # <<>>) => ret[1].prompt = zh[1]
       /\ ((zh = None \/ zh[1] = <<>>) /\ en # None) =>
            /\ ret[1].prompt = en[1]
            /\ ret[1].prompt_en = Some(ret[1].prompt)
       /\ ((zh = None \/ zh[1] = <<>>) /\ en = None) => ret[1].prompt = <<>>
       /\ ret[1].prompt_en = None <=> en = None
       /\ en # None => ret[1].prompt_en = en

\* Both markers match, the Chinese text is not empty and differs from the
\* English text, and the Chinese text is the prompt.
C12_Witness ==
  /\ pc = "returned"
  /\ ret # None
  /\ ret[1].prompt # <<>>
  /\ ret[1].prompt_en # None
  /\ ret[1].prompt_en # Some(ret[1].prompt)
  /\ ret[1].prompt_en # Some(<<>>)

\* The Chinese marker matches with nothing behind it and the English text
\* is the prompt.
C12_WitnessFallback ==
  /\ pc = "returned"
  /\ ret # None
  /\ PromptFound(SectionText(arg), ZhPromptMarks, ZhPromptStops) = Some(<<>>)
  /\ ret[1].prompt # <<>>
  /\ ret[1].prompt_en = Some(ret[1].prompt)

\* The alt text holds the word kw, in any case.
Labelled(alt, kw) ==
  \E at \in 1..(Len(alt) - Len(kw) + 1) :
    Lower(SubSeq(alt, at, at + Len(kw) - 1)) = kw

\* The images of the segment, by their place: those labelled gemini, those
\* labelled gpt or 4o and not gemini, and those with no label.
GeminiImages == {k \in 1..Len(arg.alts) : Labelled(arg.alts[k], KwGemini)}

GptImages ==
  {k \in 1..Len(arg.alts) :
     /\ k \notin GeminiImages
     /\ Labelled(arg.alts[k], KwGpt) \/ Labelled(arg.alts[k], Kw4o)}

PlainImages == (1..Len(arg.alts)) \ (GeminiImages \cup GptImages)

Last(places) == CHOOSE k \in places : \A x \in places : x <= k

First(places) == CHOOSE k \in places : \A x \in places : k <= x

\* C15: after the image pass gemini_image_url is the address of the last
\* image labelled gemini, or with no such image that of the first image
\* with no label, or with neither None; gpt4o_image_url is the address of
\* the last image labelled gpt or 4o and not gemini, or None.
C15_ImageSlots ==
  (pc = "returned" /\ ret # None) =>
    /\ ret[1].gemini_image_url =
         IF GeminiImages # {} THEN Some(ImageUrl(Last(GeminiImages)))
         ELSE IF PlainImages # {} THEN Some(ImageUrl(First(PlainImages)))
         ELSE None
    /\ ret[1].gpt4o_image_url =
         IF GptImages # {} THEN Some(ImageUrl(Last(GptImages)))
         ELSE None

\* An image with no label, then two labelled gemini: the last one has
\* replaced the default and the one before it.
C15_Witness ==
  /\ pc = "returned"
  /\ Len(arg.alts) = 3
  /\ 1 \in PlainImages
  /\ GeminiImages = {2, 3}
  /\ ret[1].gemini_image_url = Some(ImageUrl(3))
  /\ ret[1].gpt4o_image_url = None

------------------------------------------------------------------------------
(* The keys of the store after a run of main().                            *)

\* The case_ids of the records that the store created in this run, in
\* order: those of the batches that succeeded.
Created == Flatten(results)

\* C16: in one run of main no two records that the store creates carry
\* the same case_id, and none carries a key that the listing returned, so
\* that a store with pairwise distinct keys before the run has pairwise
\* distinct keys after it.
C16_CreatedKeysDistinct ==
  caller = "main" =>
    /\ \A i, j \in 1..Len(Created) : i < j => Created[i] # Created[j]
    /\ \A i \in 1..Len(Created) : Some(Created[i]) \notin KeysListed
====
